---- MODULE Spec2Model ----
(***************************************************************************)
(* Model of src/config/database.js: the three lazily opened SQLite stores  *)
(* (core.db, auth.db, audit.db), their durability pragmas, the             *)
(* CREATE-IF-NOT-EXISTS bootstrap of each store, closeAll and transaction. *)
(* Every exported function is synchronous, so one call is one step.        *)
(***************************************************************************)
EXTENDS Integers, Sequences, FiniteSets, TLC

\* ------------------------------------------------------------------ bounds
\* connections the process may open in one run
MaxConns == 2
\* a failing pragma or db.exec is one of the last MaxFailPts of its list
MaxFailPts == 1
\* keys of caller data a unit of work may touch
MaxKeys == 1
\* mutations one unit of work performs
MaxMuts == 1
\* in-process callers
NumCallers == 2

\* ------------------------------------------------------------------ names
Stores == {"core", "auth", "audit"}
Callers == 1..NumCallers
Keys == 1..MaxKeys
\* the value of coreDb / authDb / auditDb before the first open (null)
Null == 0
\* closeAll visits the stores in this order
CloseOrder == <<"core", "auth", "audit">>
\* the pragmas of initDatabase, in the order they are issued
Directives ==
  <<"journal_mode = WAL", "foreign_keys = ON", "synchronous = NORMAL",
    "cache_size = -64000", "temp_store = MEMORY">>

SeedKeys == {"filial.Principal", "tema.1", "grupo_acesso.Admin", "usuario_sistema.admin"}

\* one db.exec call of a bootstrap: the table it creates ("" for none), the
\* tables its FOREIGN KEY clauses reference, the indexes it creates, the
\* default rows it inserts
Stmt(l, t, r, i, s) == [line |-> l, table |-> t, refs |-> r, indexes |-> i, seeds |-> s]

CoreStmts ==
  << Stmt(69, "filial", {},
          {}, {}),
     Stmt(79, "cliente", {},
          {"idx_cliente_cpf_hash", "idx_cliente_email"}, {}),
     Stmt(97, "cliente_endereco", {"cliente"},
          {"idx_endereco_cliente"}, {}),
     Stmt(117, "fornecedor", {},
          {}, {}),
     Stmt(133, "categoria", {},
          {"idx_categoria_nome"}, {}),
     Stmt(146, "produto", {"categoria", "filial", "fornecedor"},
          {"idx_produto_categoria", "idx_produto_filial", "idx_produto_sku"}, {}),
     Stmt(173, "produto_variante", {"produto"},
          {"idx_variante_produto"}, {}),
     Stmt(190, "produto_imagem", {"produto", "produto_variante"},
          {"idx_imagem_produto"}, {}),
     Stmt(206, "cartao_presente", {"cliente"},
          {"idx_cartao_comprador", "idx_cartao_numero"}, {}),
     Stmt(223, "carrinho_item", {"cliente", "produto_variante"},
          {"idx_carrinho_item_cliente"}, {}),
     Stmt(238, "pedido", {"cliente", "cliente_endereco", "cupom", "filial"},
          {"idx_pedido_cliente", "idx_pedido_status"}, {}),
     Stmt(271, "pedido_item", {"pedido", "produto", "produto_variante"},
          {"idx_item_pedido"}, {}),
     Stmt(289, "estoque_movimento", {"pedido", "produto_variante"},
          {"idx_movimento_produto_variante", "idx_movimento_tipo", "idx_movimento_variante"}, {}),
     Stmt(311, "banner", {},
          {}, {}),
     Stmt(325, "carrossel", {"produto"},
          {"idx_carrossel_ativo", "idx_carrossel_ordem", "idx_carrossel_produto"}, {}),
     Stmt(344, "cupom", {},
          {"idx_cupom_codigo"}, {}),
     Stmt(360, "cupom_uso", {"cliente", "cupom", "pedido"},
          {"idx_cupom_uso_cupom", "idx_cupom_uso_pedido"}, {}),
     Stmt(376, "notificacao", {"cliente"},
          {"idx_notificacao_cliente", "idx_notificacao_lida"}, {}),
     Stmt(392, "cancelamento_devolucao", {"pedido"},
          {"idx_cancelamento_pedido", "idx_cancelamento_status"}, {}),
     Stmt(409, "reclamacao", {"cliente", "pedido"},
          {"idx_reclamacao_cliente", "idx_reclamacao_status"}, {}),
     Stmt(426, "reclamacao_midia", {"reclamacao"},
          {"idx_midia_reclamacao"}, {}),
     Stmt(440, "tema", {},
          {}, {"tema.1"}),
     Stmt(453, "caixa_sessao", {"filial"},
          {"idx_caixa_sessao_filial", "idx_caixa_sessao_status"}, {}),
     Stmt(479, "caixa_lancamento", {"caixa_sessao", "cliente", "filial", "pedido", "produto_variante"},
          {"idx_lancamento_filial", "idx_lancamento_sessao", "idx_lancamento_tipo"}, {}),
     Stmt(507, "financeiro_conta_pagar", {"filial", "fornecedor"},
          {"idx_fin_conta_pagar_filial", "idx_fin_conta_pagar_status", "idx_fin_conta_pagar_vencimento"}, {}),
     Stmt(533, "financeiro_conta_receber", {"cliente", "filial"},
          {"idx_fin_conta_receber_filial", "idx_fin_conta_receber_status", "idx_fin_conta_receber_vencimento"}, {}),
     Stmt(559, "financeiro_fechamento", {},
          {"idx_fechamento_periodo", "idx_fechamento_status"}, {}),
     Stmt(579, "", {},
          {}, {"filial.Principal"}) >>

AuthStmts ==
  << Stmt(593, "grupo_acesso", {},
          {}, {}),
     Stmt(602, "permissao", {},
          {}, {}),
     Stmt(612, "grupo_permissao", {"grupo_acesso", "permissao"},
          {}, {}),
     Stmt(622, "usuario_sistema", {"grupo_acesso"},
          {"idx_usuario_email", "idx_usuario_login"}, {}),
     Stmt(643, "urls_autorizadas", {},
          {}, {}),
     Stmt(652, "recuperacao_senha", {},
          {"idx_recuperacao_cliente", "idx_recuperacao_codigo", "idx_recuperacao_expira"}, {}),
     Stmt(666, "recuperacao_senha_usuario", {"usuario_sistema"},
          {"idx_recuperacao_usuario", "idx_recuperacao_usuario_codigo", "idx_recuperacao_usuario_expira"}, {}),
     Stmt(681, "api_token", {},
          {"idx_token"}, {}),
     Stmt(694, "integracao_token", {},
          {"idx_integracao_token_expira", "idx_integracao_token_hash"}, {}),
     Stmt(706, "webhook_config", {},
          {}, {}),
     Stmt(717, "webhook_log", {},
          {"idx_webhook_log_data", "idx_webhook_log_event", "idx_webhook_log_status"}, {}),
     Stmt(730, "dispositivo_autenticacao", {"usuario_sistema"},
          {"idx_dispositivo_id", "idx_dispositivo_status", "idx_dispositivo_token", "idx_dispositivo_usuario"}, {}),
     Stmt(751, "push_subscription", {},
          {"idx_push_endpoint"}, {}),
     Stmt(764, "", {},
          {}, {"grupo_acesso.Admin"}) >>

AuditStmts ==
  << Stmt(796, "audit_log", {},
          {"idx_audit_data", "idx_audit_entidade", "idx_audit_usuario"}, {}) >>

StmtsOf(s) ==
  CASE s = "core" -> CoreStmts
    [] s = "auth" -> AuthStmts
    [] OTHER -> AuditStmts

\* the db.exec calls of store s at which a failure is explored (0: none fails)
FailPoints(s) ==
  {0} \cup {k \in 1..Len(StmtsOf(s)) : k > Len(StmtsOf(s)) - MaxFailPts}

\* the pragmas at which a failure is explored (0: none fails)
PragmaFailPoints ==
  {0} \cup {k \in 1..Len(Directives) : k > Len(Directives) - MaxFailPts}

\* ------------------------------------------------------------------ state
VARIABLES
  slot,    \* coreDb / authDb / auditDb: the cached handle of each store, or Null
  conns,   \* every connection the module has opened; a handle is its index
  file,    \* the content of core.db / auth.db / audit.db
  last,    \* the call that was made last and what its caller observed
  race,    \* two processes that bootstrap one store file at the same time
  disk     \* the directories of the file system and where the store files go

vars == <<slot, conns, file, last, race, disk>>

\* the content of a store file: its tables and indexes, the tables that were
\* created while a table they reference did not exist yet, how many rows carry
\* each default key, whether the row of each default key holds the columns it
\* was seeded with ("default") or columns a caller wrote ("changed"), and the
\* callers' data; for auth.db also the names of the rows of grupo_acesso in the
\* order of their AUTOINCREMENT ids, and the grupo_acesso_id of the 'admin'
\* account (0: no such account)
FreshFile ==
  [tables |-> {}, indexes |-> {}, early |-> {}, seed |-> [k \in SeedKeys |-> 0],
   row |-> [k \in SeedKeys |-> "absent"], groups |-> <<>>, adminRef |-> 0,
   data |-> {}]

\* what a call hands to its caller: a returned value or a thrown error object
Res(type, val) == [type |-> type, val |-> val]
NoRes == Res("none", "")

\* an error object the engine (or a module that failed to load) throws
EngineError(code) == Res("throw", code)

NoCall ==
  [op |-> "none", caller |-> 0, store |-> "", outcome |-> "ok", handle |-> Null,
   openTried |-> FALSE, booted |-> FALSE, workThrew |-> FALSE, dirty |-> FALSE,
   result |-> NoRes, calls |-> 0, args |-> <<>>, warned |-> FALSE]

\* the processes of the race
Procs == {1, 2}

\* a race on store s in which process p finds the hashing as hash[p]: how many
\* of its steps each process has taken, what its SELECT of the admin login
\* found, whether it logged the warning, and the error that ended it
Race(s, hash) ==
  [store |-> s, pc |-> [p \in Procs |-> 0], hash |-> hash,
   seen |-> [p \in Procs |-> FALSE], warned |-> [p \in Procs |-> FALSE],
   error |-> [p \in Procs |-> NoRes]]

NoRace == Race("", [p \in Procs |-> "ok"])

\* the directories a configured path may name
Dirs == {"data", "secure"}

\* the file system: the directory each store's configured path lies in, the
\* directories that exist, whether the module has been loaded, and the stores
\* whose file the engine has been asked to open
Disk(layout, dirs, loaded) ==
  [layout |-> layout, dirs |-> dirs, loaded |-> loaded, asked |-> {}]

\* the module loaded with the three paths in one directory
DefaultDisk == Disk([s \in Stores |-> "data"], {"data"}, TRUE)

Init ==
  /\ slot = [s \in Stores |-> Null]
  /\ conns = <<>>
  /\ file = [s \in Stores |-> FreshFile]
  /\ last = NoCall
  /\ race = NoRace
  /\ disk = DefaultDisk

\* ------------------------------------------------- the engine's connection
NewConn(s, applied) ==
  [store |-> s, open |-> TRUE, pragmas |-> SubSeq(Directives, 1, applied),
   bootRuns |-> 0, bootOk |-> FALSE, returned |-> FALSE, closeCalled |-> FALSE]

\* the catch block throws a new generic error in place of the one it caught
RethrowWrapped(e) == Res("Error", e.val)

\* catch (error) { logger.error(...); throw error; }
Rethrow(e) == e

\* the catch block of initDatabase hands the connection back as it is
InitDatabaseLenient(s, openOk, pf) ==
  IF ~openOk
  THEN [threw |-> TRUE, opened |-> FALSE, conn |-> NewConn(s, 0),
        error |-> Rethrow(EngineError("SQLITE_CANTOPEN"))]
  ELSE [threw |-> FALSE, opened |-> TRUE,
        conn |-> NewConn(s, IF pf > 0 THEN pf - 1 ELSE Len(Directives)),
        error |-> NoRes]

\* initDatabase(dbPath, name): new Database(...) then the five pragmas; any
\* throw is logged and rethrown.  openOk: the engine opens the file; pf: the
\* pragma that throws (0: none).  A connection that was opened before a
\* pragma threw is not closed by the catch block.
InitDatabase(s, openOk, pf) ==
  IF ~openOk
  THEN [threw |-> TRUE, opened |-> FALSE, conn |-> NewConn(s, 0),
        error |-> Rethrow(EngineError("SQLITE_CANTOPEN"))]
  ELSE IF pf > 0
  THEN [threw |-> TRUE, opened |-> TRUE, conn |-> NewConn(s, pf - 1),
        error |-> Rethrow(EngineError("SQLITE_IOERR"))]
  ELSE [threw |-> FALSE, opened |-> TRUE, conn |-> NewConn(s, Len(Directives)),
        error |-> NoRes]

\* the insert without the conflict on the key: a row is added every time
InsertAlways(n) == n + 1

\* INSERT OR IGNORE of a default row whose key column is UNIQUE (filial.nome,
\* tema.id, grupo_acesso.nome, usuario_sistema.login): n rows carry the key
InsertOrIgnore(n) == IF n > 0 THEN n ELSE n + 1

\* INSERT OR IGNORE INTO grupo_acesso (nome, ...) VALUES ('Admin', ...): a new
\* row gets the next id, a row with that name makes the insert a no-op
InsertGroupOrIgnore(groups, nome) ==
  IF \E g \in 1..Len(groups) : groups[g] = nome THEN groups
  ELSE Append(groups, nome)

\* INSERT OR REPLACE: the row of the key gets the default columns again
RowInsertOrReplace(c) == "default"

\* INSERT OR IGNORE on a UNIQUE key, seen from the row of that key: a row that
\* exists is left as it is
RowInsertOrIgnore(c) == IF c = "absent" THEN "default" ELSE c

\* CREATE TABLE / CREATE INDEX without IF NOT EXISTS: an object that exists
\* already is an error
ExistsIsErrorPlain(have, names) == names \cap have # {}

\* CREATE TABLE IF NOT EXISTS / CREATE [UNIQUE] INDEX IF NOT EXISTS: an object
\* that exists already is skipped without an error
ExistsIsError(have, names) == FALSE

\* one db.exec of a bootstrap applied to the content of a store file: the
\* table, then its indexes, then the default rows; SQLite accepts a FOREIGN
\* KEY clause whose parent table does not exist yet
ExecStmt(f, st) ==
  IF ExistsIsError(f.tables, {st.table}) \/ ExistsIsError(f.indexes, st.indexes)
  THEN [file |-> f, error |-> EngineError("SQLITE_ERROR: already exists")]
  ELSE [file |->
          [f EXCEPT !.tables = IF st.table = "" THEN @ ELSE @ \cup {st.table},
                    !.indexes = IF st.indexes = {} THEN @ ELSE @ \cup st.indexes,
                    !.early = IF st.table = "" \/ st.table \in f.tables
                                 \/ (st.refs \ {st.table}) \subseteq f.tables
                              THEN @ ELSE @ \cup {st.table},
                    !.seed = IF st.seeds = {} THEN @
                             ELSE [k \in SeedKeys |->
                                     IF k \in st.seeds THEN InsertOrIgnore(@[k])
                                     ELSE @[k]],
                    !.row = IF st.seeds = {} THEN @
                            ELSE [k \in SeedKeys |->
                                    IF k \in st.seeds THEN RowInsertOrIgnore(@[k])
                                    ELSE @[k]],
                    !.groups = IF "grupo_acesso.Admin" \in st.seeds
                               THEN InsertGroupOrIgnore(@, "Admin") ELSE @],
        error |-> NoRes]

RECURSIVE ExecRange(_, _, _, _)
\* the db.exec calls lo + 1 .. hi of stmts, in order, up to the first that
\* throws, continuing from the result r of the calls before them
ExecRange(r, stmts, lo, hi) ==
  IF hi <= lo THEN r
  ELSE LET p == ExecRange(r, stmts, lo, hi - 1)
       IN IF p.error # NoRes THEN p ELSE ExecStmt(p.file, stmts[hi])

\* the first n db.exec calls of stmts
ExecAll(f, stmts, n) == ExecRange([file |-> f, error |-> NoRes], stmts, 0, n)

\* the db.exec calls of store s before the first at which a failure of the
\* engine is explored
SafeLen(s) == IF Len(StmtsOf(s)) > MaxFailPts THEN Len(StmtsOf(s)) - MaxFailPts ELSE 0

\* what the process finds when the bootstrap of auth.db reaches the default
\* account: bcryptjs loads and hashes, require('bcryptjs') throws, or
\* hashSync throws
HashEnvs == {"ok", "unavailable", "fails"}

\* the inner catch block passes the error on to the outer one
CatchSeedErrorRethrows(e) == [warned |-> FALSE, error |-> e]

\* catch (bcryptErr) { logger.warn(...) }
CatchSeedError(e) == [warned |-> TRUE, error |-> NoRes]

\* the default account is never inserted and nothing is logged
SeedAdminSkipped(f, hash) == [file |-> f, warned |-> FALSE, error |-> NoRes]

\* a plain INSERT into a table without the UNIQUE login
InsertAdminUnchecked(n) == n + 1

\* INSERT OR IGNORE INTO usuario_sistema ... .run('Administrador', 'admin', ...)
InsertAdmin(n) == InsertOrIgnore(n)

\* .run('Administrador', 'admin', adminSenhaHash, null, 1, 1): the last
\* argument is the grupo_acesso_id of the account
AdminGroupId == 1

\* the try block that seeds the default account: require('bcryptjs'), the
\* SELECT of the admin login, and if there is none hashSync and the insert
SeedAdmin(f, hash) ==
  LET none == [warned |-> FALSE, error |-> NoRes]
      fk == AdminGroupId \in 1..Len(f.groups)
      c == IF hash = "unavailable" THEN CatchSeedError(EngineError("MODULE_NOT_FOUND"))
           ELSE IF f.seed["usuario_sistema.admin"] > 0 THEN none
           ELSE IF hash = "fails" THEN CatchSeedError(EngineError("hashSync"))
           ELSE IF ~fk THEN CatchSeedError(EngineError("SQLITE_CONSTRAINT_FOREIGNKEY"))
           ELSE none
  IN [file |-> IF hash = "ok" /\ f.seed["usuario_sistema.admin"] = 0 /\ fk
               THEN [f EXCEPT !.seed["usuario_sistema.admin"] = InsertAdmin(@),
                              !.row["usuario_sistema.admin"] = RowInsertOrIgnore(@),
                              !.adminRef = AdminGroupId]
               ELSE f,
      warned |-> c.warned, error |-> c.error]

\* ensureCoreTables / ensureAuthTables / ensureAuditTables of store s, given
\* the result r of its first SafeLen(s) db.exec calls: bf is the db.exec at
\* which the engine fails (0: none); the catch block logs and rethrows, the
\* statements executed before it stay in the file
EnsureTablesFrom(s, r, bf, hash) ==
  LET x == ExecRange(r, StmtsOf(s), SafeLen(s),
                     IF bf > 0 THEN bf - 1 ELSE Len(StmtsOf(s)))
      a == IF s = "auth" /\ bf = 0 /\ x.error = NoRes
           THEN SeedAdmin(x.file, hash)
           ELSE [file |-> x.file, warned |-> FALSE, error |-> NoRes]
      e == IF x.error # NoRes THEN x.error
           ELSE IF bf > 0 THEN EngineError("SQLITE_IOERR")
           ELSE a.error
  IN [threw |-> e # NoRes, file |-> a.file, warned |-> a.warned,
      error |-> IF e # NoRes THEN Rethrow(e) ELSE NoRes]

\* ensureCoreTables / ensureAuthTables / ensureAuditTables on the file f
EnsureTables(s, f, bf, hash) ==
  EnsureTablesFrom(s, ExecAll(f, StmtsOf(s), SafeLen(s)), bf, hash)

\* ------------------------------------------------------------- the registry
\* the guard without its test: every call opens
NeedsOpenAlways(v) == TRUE

\* if (!coreDb)
NeedsOpen(v) == v = Null

\* the slot is assigned as soon as the connection is open, before the pragmas
SlotAfterInitEager(old, h, i) == IF i.opened THEN h ELSE old

\* the result of initDatabase is never stored in the module variable
SlotAfterInitNever(old, h, i) == old

\* coreDb = initDatabase(...): the assignment happens only if the call returns
SlotAfterInit(old, h, i) == IF i.threw THEN old ELSE h

\* ensureCoreTables(coreDb) runs after the assignment and getCore has no catch
SlotAfterBootstrap(h, threw) == h

Call(op, c, s, out, h, tried, booted) ==
  [op |-> op, caller |-> c, store |-> s, outcome |-> out, handle |-> h,
   openTried |-> tried, booted |-> booted, workThrew |-> FALSE, dirty |-> FALSE,
   result |-> NoRes, calls |-> 0, args |-> <<>>, warned |-> FALSE]

\* what a call that opens store s may meet: whether new Database opens the
\* file, the pragma that throws (0: none), the db.exec at which the engine
\* fails (0: none), and what the hashing does; a step that is not reached
\* has no say
Envs(s) ==
  {e \in [openOk : BOOLEAN, pf : PragmaFailPoints, bf : FailPoints(s), hash : HashEnvs] :
     /\ ~e.openOk => e.pf = 0
     /\ (~e.openOk \/ e.pf > 0) => e.bf = 0
     /\ (~e.openOk \/ e.pf > 0 \/ e.bf > 0 \/ s # "auth") => e.hash = "ok"}

\* initDatabase(path, s) and then, if it returned, ensure*Tables on the file
\* f, for each thing the call may meet
OpenAndBootstrap(s, f) ==
  LET r == ExecAll(f, StmtsOf(s), SafeLen(s))
  IN {[i |-> InitDatabase(s, e.openOk, e.pf),
       b |-> IF InitDatabase(s, e.openOk, e.pf).threw
             THEN [threw |-> FALSE, file |-> f, warned |-> FALSE, error |-> NoRes]
             ELSE EnsureTablesFrom(s, r, e.bf, e.hash)] : e \in Envs(s)}

\* every getter tests and assigns the variable coreDb
SlotOfCore(s) == "core"

\* the module variable the getter of store s tests, assigns and returns:
\* coreDb in getCore, authDb in getAuth, auditDb in getAudit
SlotOf(s) == s

\* getCore / getAuth / getAudit, called by c
GetStore(s) ==
  IF ~NeedsOpen(slot[SlotOf(s)])
  THEN /\ conns' = [conns EXCEPT ![slot[SlotOf(s)]].returned = TRUE]
       /\ \E c \in Callers :
            last' = Call("getStore", c, s, "ok", slot[SlotOf(s)], FALSE, FALSE)
       /\ UNCHANGED <<slot, file, race, disk>>
  ELSE /\ Len(conns) < MaxConns
       /\ \E o \in OpenAndBootstrap(s, file[s]), c \in Callers :
            LET i == o.i
                b == o.b
                h == Len(conns) + 1
            IN IF i.threw
               THEN /\ conns' = IF i.opened THEN Append(conns, i.conn) ELSE conns
                    /\ slot' = [slot EXCEPT ![SlotOf(s)] = SlotAfterInit(@, h, i)]
                    /\ last' = [Call("getStore", c, s,
                                     IF i.opened THEN "pragmaError" ELSE "openError",
                                     Null, TRUE, FALSE)
                                  EXCEPT !.result = i.error]
                    /\ UNCHANGED <<file, race, disk>>
               ELSE /\ file' = [file EXCEPT ![s] = b.file]
                    /\ slot' = [slot EXCEPT
                                  ![SlotOf(s)] =
                                    SlotAfterBootstrap(SlotAfterInit(@, h, i),
                                                       b.threw)]
                    /\ conns' = Append(conns,
                                  [i.conn EXCEPT !.bootRuns = @ + 1,
                                                 !.bootOk = ~b.threw,
                                                 !.returned = ~b.threw])
                    /\ last' = [Call("getStore", c, s,
                                     IF b.threw THEN "schemaError" ELSE "ok",
                                     IF b.threw THEN Null ELSE h, TRUE, TRUE)
                                  EXCEPT !.result = b.error, !.warned = b.warned]
                    /\ UNCHANGED <<race, disk>>

\* the guard without its test: close() is called on every slot
ShouldCloseAlways(v) == TRUE

\* if (coreDb)
ShouldClose(v) == v # Null

\* one of the three blocks of closeAll; failAt is the store whose close()
\* throws ("none": no close throws).  A close that throws leaves the
\* connection open and ends closeAll before the slot is cleared.
CloseStep(st, s, failAt) ==
  IF st.threw \/ ~ShouldClose(st.slot[s]) THEN st
  ELSE IF st.slot[s] = Null THEN [st EXCEPT !.threw = TRUE]
  ELSE IF failAt = s
  THEN [st EXCEPT !.threw = TRUE, !.conns[st.slot[s]].closeCalled = TRUE]
  ELSE [st EXCEPT !.conns[st.slot[s]].closeCalled = TRUE,
                  !.conns[st.slot[s]].open = FALSE,
                  !.slot[s] = Null]

RECURSIVE CloseSteps(_, _, _)
CloseSteps(st, n, failAt) ==
  IF n = 0 THEN st ELSE CloseStep(CloseSteps(st, n - 1, failAt), CloseOrder[n], failAt)

\* closeAll()
CloseAll ==
  \E failAt \in Stores \cup {"none"} :
    LET r == CloseSteps([slot |-> slot, conns |-> conns, threw |-> FALSE],
                        Len(CloseOrder), failAt)
    IN /\ slot' = r.slot
       /\ conns' = r.conns
       /\ last' = Call("closeAll", 0, "", IF r.threw THEN "closeError" ELSE "ok",
                        Null, FALSE, FALSE)
       /\ UNCHANGED <<file, race, disk>>

\* -------------------------------------------------------------- transaction
Ops == [kind : {"put", "del"}, key : Keys]
\* the value a unit of work returns, or the error object it throws
Vals == {"v1"}
\* a unit of work: the mutations it performs, then whether it throws val or
\* returns val
Works == [muts : UNION {[1..k -> Ops] : k \in 0..MaxMuts}, throws : BOOLEAN, val : Vals]

ApplyOp(d, o) == IF o.kind = "put" THEN d \cup {o.key} ELSE d \ {o.key}

RECURSIVE ApplyMuts(_, _, _)
ApplyMuts(d, m, n) == IF n = 0 THEN d ELSE ApplyOp(ApplyMuts(d, m, n - 1), m[n])

\* fn runs against the connection: its writes reach the store as it goes
RunWork(d, w) == [data |-> ApplyMuts(d, w.muts, Len(w.muts)), threw |-> w.throws]

\* what fn hands back when it is called: its value, or the error it throws
WorkResult(w) == IF w.throws THEN Res("throw", w.val) ELSE Res("return", w.val)

\* db.transaction(fn) of the engine wrapper, called with the arguments args:
\* BEGIN, fn(...args), then COMMIT and the value of fn, or ROLLBACK and the
\* error of fn rethrown
DbTransaction(d, w, args) ==
  LET r == RunWork(d, w)
  IN [data |-> IF r.threw THEN d ELSE r.data, threw |-> r.threw,
      result |-> WorkResult(w), calls |-> 1, args |-> args]

\* fn called directly, outside db.transaction
TransactionUnwrapped(d, w) ==
  [data |-> RunWork(d, w).data, threw |-> w.throws,
   result |-> WorkResult(w), calls |-> 1, args |-> <<>>]

\* the wrapper is built and never called: db.transaction(fn) without the ()
TransactionNotCalled(d, w) ==
  [data |-> d, threw |-> FALSE, result |-> Res("return", "function"),
   calls |-> 0, args |-> <<>>]

\* fn is run once directly and once more inside db.transaction
TransactionTwice(d, w) ==
  [DbTransaction(RunWork(d, w).data, w, <<>>) EXCEPT !.calls = 2]

\* the error of fn is caught and the call returns normally
TransactionSwallow(d, w) ==
  LET r == DbTransaction(d, w, <<>>)
  IN IF r.threw THEN [r EXCEPT !.threw = FALSE, !.result = Res("return", "undefined")]
     ELSE r

\* transaction(db, fn): return db.transaction(fn)()
Transaction(d, w) == DbTransaction(d, w, <<>>)

\* transaction(h, w) on a handle that getCore / getAuth / getAudit gave out;
\* on a closed connection the engine throws before fn is called
\* a transaction whose work throws makes the registry forget the handle
SlotAfterTransactionDropped(old, threw) == IF threw THEN Null ELSE old

\* transaction() assigns none of coreDb / authDb / auditDb, whether the work
\* throws or not
SlotAfterTransaction(old, threw) == old

RunTransaction(h, w) ==
  /\ conns[h].returned
  /\ LET s == conns[h].store
         r == Transaction(file[s].data, w)
     IN IF ~conns[h].open
        THEN /\ last' = [Call("transaction", 0, s, "closedError", h, FALSE, FALSE)
                           EXCEPT !.result = Res("throw", "closed")]
             /\ UNCHANGED <<file, slot>>
        ELSE /\ file' = [file EXCEPT ![s].data = r.data]
             /\ slot' = [t \in Stores |-> SlotAfterTransaction(slot[t], r.threw)]
             /\ last' = [Call("transaction", 0, s,
                              IF r.threw THEN "workError" ELSE "ok", h, FALSE, FALSE)
                           EXCEPT !.workThrew = w.throws,
                                  !.dirty = RunWork(file[s].data, w).data # file[s].data,
                                  !.result = r.result,
                                  !.calls = r.calls,
                                  !.args = r.args]
  /\ UNCHANGED <<conns, race, disk>>

Next ==
  \/ \E s \in Stores : GetStore(s)
  \/ CloseAll
  \/ \E h \in 1..Len(conns), w \in Works : RunTransaction(h, w)

Spec == Init /\ [][Next]_vars

\* ------------------------------- two processes bootstrapping one store file
\* the SQL statements of one db.exec, each committed on its own: the CREATE
\* TABLE, the CREATE INDEX statements, the INSERT OR IGNORE
SqlOf(st) ==
  (IF st.table = "" THEN <<>> ELSE <<Stmt(st.line, st.table, st.refs, {}, {})>>)
  \o (IF st.indexes = {} THEN <<>> ELSE <<Stmt(st.line, "", {}, st.indexes, {})>>)
  \o (IF st.seeds = {} THEN <<>> ELSE <<Stmt(st.line, "", {}, {}, st.seeds)>>)

RECURSIVE SqlStatements(_, _)
\* the SQL statements of the first n db.exec calls of stmts, in order
SqlStatements(stmts, n) ==
  IF n = 0 THEN <<>> ELSE SqlStatements(stmts, n - 1) \o SqlOf(stmts[n])

CoreSql == SqlStatements(CoreStmts, Len(CoreStmts))
AuthSql == SqlStatements(AuthStmts, Len(AuthStmts))
AuditSql == SqlStatements(AuditStmts, Len(AuditStmts))

\* the SQL statements of the bootstrap the two processes run
RaceSql ==
  CASE race.store = "core" -> CoreSql
    [] race.store = "auth" -> AuthSql
    [] OTHER -> AuditSql

\* the steps of one bootstrap of the store: its statements and, for auth.db,
\* the SELECT of the admin login and the insert of the account
RaceSteps == Len(RaceSql) + (IF race.store = "auth" THEN 2 ELSE 0)

RaceDone(p) == race.pc[p] = RaceSteps \/ race.error[p] # NoRes

\* both processes have opened the file of one store, each with its own
\* connection, and are about to run ensure*Tables on it
InitRace ==
  /\ slot = [s \in Stores |-> Null]
  /\ conns = <<>>
  /\ file = [s \in Stores |-> FreshFile]
  /\ last = NoCall
  /\ \E s \in Stores :
     \E hash \in [Procs -> IF s = "auth" THEN HashEnvs ELSE {"ok"}] :
       race = Race(s, hash)
  /\ disk = DefaultDisk

\* process p executes its next SQL statement; an error ends its bootstrap
RaceExec(p) ==
  /\ ~RaceDone(p) /\ race.pc[p] < Len(RaceSql)
  /\ LET x == ExecStmt(file[race.store], RaceSql[race.pc[p] + 1])
     IN /\ file' = [file EXCEPT ![race.store] = x.file]
        /\ race' = [race EXCEPT !.pc[p] = @ + 1,
                                !.error[p] = IF x.error = NoRes THEN NoRes
                                             ELSE Rethrow(x.error)]
  /\ UNCHANGED <<slot, conns, last, disk>>

\* process p of a race on auth.db: require('bcryptjs') and
\* db.prepare("SELECT id FROM usuario_sistema WHERE login = 'admin'").get()
RaceSelect(p) ==
  /\ ~RaceDone(p) /\ race.store = "auth" /\ race.pc[p] = Len(RaceSql)
  /\ LET found == file["auth"].seed["usuario_sistema.admin"] > 0
         c == CatchSeedError(EngineError("MODULE_NOT_FOUND"))
     IN race' = IF race.hash[p] = "unavailable"
                THEN [race EXCEPT !.pc[p] = RaceSteps, !.warned[p] = c.warned,
                                  !.error[p] = c.error]
                ELSE [race EXCEPT !.pc[p] = IF found THEN RaceSteps ELSE @ + 1,
                                  !.seen[p] = found]
  /\ UNCHANGED <<slot, conns, file, last, disk>>

\* process p of a race on auth.db, whose SELECT found no admin: hashSync and
\* the INSERT OR IGNORE of the account
RaceInsert(p) ==
  /\ ~RaceDone(p) /\ race.store = "auth" /\ race.pc[p] = Len(RaceSql) + 1
  /\ LET c == CatchSeedError(EngineError("hashSync"))
     IN IF race.hash[p] = "fails"
        THEN /\ race' = [race EXCEPT !.pc[p] = RaceSteps, !.warned[p] = c.warned,
                                     !.error[p] = c.error]
             /\ UNCHANGED file
        ELSE /\ race' = [race EXCEPT !.pc[p] = RaceSteps]
             /\ file' = [file EXCEPT !["auth"].seed["usuario_sistema.admin"] =
                                        InsertAdmin(@),
                                      !["auth"].row["usuario_sistema.admin"] =
                                        RowInsertOrIgnore(@),
                                      !["auth"].adminRef = AdminGroupId]
  /\ UNCHANGED <<slot, conns, last, disk>>

RaceStep(p) == RaceExec(p) \/ RaceSelect(p) \/ RaceInsert(p)

NextRace == \E p \in Procs : RaceStep(p)

\* each process runs its synchronous ensure*Tables call to its end
SpecRace == InitRace /\ [][NextRace]_vars /\ \A p \in Procs : WF_vars(RaceStep(p))

\* ------------------------------------ callers writing through their handle
\* the store that holds the default row of key k
StoreOfKey(k) == IF k \in {"filial.Principal", "tema.1"} THEN "core" ELSE "auth"

\* a caller changes columns of the default row k (the password hash of the
\* admin account, say) through the open handle h that getCore / getAuth
\* returned
EditRow(h, k) ==
  /\ conns[h].returned /\ conns[h].open
  /\ conns[h].store = StoreOfKey(k)
  /\ file[StoreOfKey(k)].row[k] # "absent"
  /\ file' = [file EXCEPT ![StoreOfKey(k)].row[k] = "changed"]
  /\ last' = Call("edit", 0, StoreOfKey(k), "ok", h, FALSE, FALSE)
  /\ UNCHANGED <<slot, conns, race, disk>>

\* a caller inserts an access group of its own into grupo_acesso through the
\* open handle h that getAuth returned; the row gets the next id
InsertGroup(h) ==
  /\ conns[h].returned /\ conns[h].open
  /\ conns[h].store = "auth"
  /\ "grupo_acesso" \in file["auth"].tables
  /\ \A g \in 1..Len(file["auth"].groups) : file["auth"].groups[g] # "Gerente"
  /\ file' = [file EXCEPT !["auth"].groups = Append(@, "Gerente")]
  /\ last' = Call("insertGroup", 0, "auth", "ok", h, FALSE, FALSE)
  /\ UNCHANGED <<slot, conns, race, disk>>

NextEdit ==
  \/ \E s \in Stores : GetStore(s)
  \/ CloseAll
  \/ \E h \in 1..Len(conns), k \in SeedKeys : EditRow(h, k)
  \/ \E h \in 1..Len(conns) : InsertGroup(h)

\* the module's calls together with callers that write to the default rows
SpecEdit == Init /\ [][NextEdit]_vars

\* ------------------------------------------------ the data directory
\* const dataDir = path.dirname(config.database.corePath);
\* if (!fs.existsSync(dataDir)) fs.mkdirSync(dataDir, { recursive: true });
EnsureDataDir(d) == [d EXCEPT !.dirs = @ \cup {d.layout["core"]}, !.loaded = TRUE]

\* a process starts with some configuration of the three paths and some
\* directories on the disk, and has not loaded the module yet
InitLoad ==
  /\ slot = [s \in Stores |-> Null]
  /\ conns = <<>>
  /\ file = [s \in Stores |-> FreshFile]
  /\ last = NoCall
  /\ race = NoRace
  /\ \E layout \in [Stores -> Dirs], dirs \in SUBSET Dirs :
       disk = Disk(layout, dirs, FALSE)

\* require('./config/database'): the statements at the top of the module
LoadModule ==
  /\ ~disk.loaded
  /\ disk' = EnsureDataDir(disk)
  /\ last' = Call("load", 0, "", "ok", Null, FALSE, FALSE)
  /\ UNCHANGED <<slot, conns, file, race>>

\* the first access to store s: the getter passes the configured path to
\* initDatabase, which asks the engine to open it with new Database(dbPath);
\* the engine cannot open a file in a directory that does not exist
OpenFile(s) ==
  /\ disk.loaded /\ s \notin disk.asked
  /\ disk' = [disk EXCEPT !.asked = @ \cup {s}]
  /\ last' = Call("open", 0, s,
                  IF disk.layout[s] \in disk.dirs THEN "ok" ELSE "openError",
                  Null, TRUE, FALSE)
  /\ UNCHANGED <<slot, conns, file, race>>

NextLoad == LoadModule \/ \E s \in Stores : OpenFile(s)

SpecLoad == InitLoad /\ [][NextLoad]_vars

\* ------------------------------------------------------------------ claims
Handles == 1..Len(conns)

\* the open connections of store s
LiveConns(s) == {h \in Handles : conns[h].store = s /\ conns[h].open}

\* C1: when the bootstrap of a store throws, the registry holds no handle for
\* that store, so that the next call opens and bootstraps again.
C1_FailedBootstrapLeavesSlotEmpty ==
  (last.op = "getStore" /\ last.outcome = "schemaError") => slot[last.store] = Null

\* C2: every handle that getCore / getAuth / getAudit has returned has all the
\* pragmas applied and a bootstrap that ran to completion.
C2_ReturnedHandleIsReady ==
  \A h \in Handles :
    conns[h].returned => (conns[h].pragmas = Directives /\ conns[h].bootOk)

\* C3: a call that finds a cached handle returns that handle and changes
\* neither the registry, the pragmas, the bootstrap count nor the file; two
\* calls in sequence for one store return the same handle and run the
\* bootstrap at most once between them.
C3_SecondCallReturnsCachedHandle ==
  [][ /\ (last'.op = "getStore" /\ slot[last'.store] # Null) =>
           /\ last'.outcome = "ok" /\ last'.handle = slot[last'.store]
           /\ ~last'.openTried /\ ~last'.booted
           /\ slot' = slot /\ file' = file /\ Len(conns') = Len(conns)
           /\ \A h \in Handles : /\ conns'[h].pragmas = conns[h].pragmas
                                 /\ conns'[h].bootRuns = conns[h].bootRuns
      /\ (last.op = "getStore" /\ last'.op = "getStore" /\ last'.store = last.store) =>
           /\ ~(last.booted /\ last'.booted)
           /\ last.outcome = "ok" => (last'.outcome = "ok" /\ last'.handle = last.handle)
    ]_vars

C3_Witness ==
  /\ last.op = "getStore" /\ last.outcome = "ok" /\ ~last.openTried
  /\ last.handle = slot[last.store]
  /\ conns[last.handle].bootRuns = 1 /\ conns[last.handle].bootOk

\* C4: when the engine cannot open the file or a pragma throws, the call fails,
\* the slot of the store stays empty, and the next call for the store opens
\* again.
C4_OpenFailureCachesNothing ==
  [][ /\ (last'.op = "getStore" /\ last'.outcome \in {"openError", "pragmaError"}) =>
           /\ last'.handle = Null
           /\ slot[last'.store] = Null /\ slot' = slot
      /\ (/\ last.op = "getStore" /\ last.outcome \in {"openError", "pragmaError"}
          /\ last'.op = "getStore" /\ last'.store = last.store) => last'.openTried
    ]_vars

C4_Witness ==
  /\ last.op = "getStore" /\ last.outcome = "pragmaError"
  /\ slot[last.store] = Null
  /\ \E h \in Handles : conns[h].store = last.store /\ conns[h].pragmas # Directives

\* C5: each store has at most one open connection, counting the connections
\* whose pragmas or bootstrap failed.
C5_OneLiveConnectionPerStore ==
  \A s \in Stores : Cardinality(LiveConns(s)) <= 1

\* C6: after a closeAll call every slot is empty and every handle that was
\* cached when the call began is closed, also when one close() throws.
C6_CloseAllClosesAndClears ==
  [][ last'.op = "closeAll" =>
        \A s \in Stores :
          /\ slot'[s] = Null
          /\ slot[s] # Null => ~conns'[slot[s]].open
    ]_vars

\* C7: closeAll with every slot empty returns without error and changes
\* nothing; after a closeAll that returned every slot is empty, so a second
\* closeAll in a row is that no-op; closeAll leaves a closed connection alone.
C7_CloseAllIsNoOpWhenNothingOpen ==
  /\ [](last.op = "closeAll" /\ last.outcome = "ok" => \A s \in Stores : slot[s] = Null)
  /\ [][ last'.op = "closeAll" =>
           /\ (\A s \in Stores : slot[s] = Null) =>
                 (last'.outcome = "ok" /\ slot' = slot /\ conns' = conns /\ file' = file)
           /\ \A h \in Handles : ~conns[h].open => conns'[h] = conns[h]
       ]_vars

C7_Witness ==
  /\ last.op = "closeAll" /\ last.outcome = "ok"
  /\ \A s \in Stores : slot[s] = Null
  /\ \A h \in Handles : ~conns[h].open

\* C8: the first successful call for a store whose connection closeAll has
\* closed opens a new connection, applies the five pragmas to it, runs the
\* bootstrap on it once and caches it; no default row of the store exists
\* twice afterwards and every table that existed still exists.
C8_ReopenAfterCloseAll ==
  [][ \A s \in Stores :
        ( /\ last'.op = "getStore" /\ last'.store = s /\ last'.outcome = "ok"
          /\ slot[s] = Null
          /\ \E h \in Handles : conns[h].store = s /\ ~conns[h].open ) =>
        LET n == last'.handle IN
          /\ n = Len(conns) + 1 /\ Len(conns') = n
          /\ slot'[s] = n
          /\ conns'[n].store = s /\ conns'[n].open
          /\ conns'[n].pragmas = Directives
          /\ conns'[n].bootRuns = 1 /\ conns'[n].bootOk
          /\ file[s].tables \subseteq file'[s].tables
          /\ \A k \in SeedKeys :
               /\ file'[s].seed[k] <= 1
               /\ file[s].seed[k] = 1 => file'[s].seed[k] = 1
    ]_vars

C8_Witness ==
  /\ last.op = "getStore" /\ last.store = "core" /\ last.outcome = "ok"
  /\ last.openTried /\ last.handle = slot["core"]
  /\ \E h \in Handles :
       /\ h < last.handle /\ conns[h].store = "core"
       /\ conns[h].bootOk /\ ~conns[h].open
  /\ file["core"].seed["filial.Principal"] = 1

\* C9: whatever the order in which callers call, a store never has two open
\* connections on which a bootstrap ran, no connection is bootstrapped twice,
\* a bootstrap starts only when no bootstrapped connection of the store is
\* open, and the callers of a store hold at most one open handle of it.
C9_AtMostOneBootstrapPerStore ==
  /\ [](\A s \in Stores :
          /\ Cardinality({h \in LiveConns(s) : conns[h].bootRuns > 0}) <= 1
          /\ Cardinality({h \in LiveConns(s) : conns[h].returned}) <= 1)
  /\ [](\A h \in Handles : conns[h].bootRuns <= 1)
  /\ [][ (last'.op = "getStore" /\ last'.booted) =>
           \A h \in LiveConns(last'.store) : conns[h].bootRuns = 0 ]_vars

C9_Witness ==
  /\ last.op = "getStore" /\ last.caller = 2 /\ last.outcome = "ok"
  /\ ~last.booted
  /\ conns[last.handle].returned /\ conns[last.handle].bootRuns = 1

\* C10: a transaction whose unit of work throws leaves the content of every
\* store file as it was and ends in an error for the caller.
C10_ThrowingWorkRollsBack ==
  [][ (last'.op = "transaction" /\ last'.workThrew) =>
        (file' = file /\ last'.outcome # "ok") ]_vars

C10_Witness ==
  /\ last.op = "transaction" /\ last.outcome = "workError"
  /\ last.workThrew /\ last.dirty
  /\ conns[last.handle].open

\* C11: a transaction whose unit of work returns leaves in the store exactly
\* the data the work's mutations produce, all of them, which is what every
\* later read of the store file sees, and returns the value the work returned.
C11_ReturningWorkCommits ==
  [][ (last'.op = "transaction" /\ ~last'.workThrew /\ conns[last'.handle].open) =>
        \A w \in {x \in Works : ~x.throws} :
          RunTransaction(last'.handle, w) =>
            /\ last'.outcome = "ok"
            /\ file'[last'.store].data =
                 ApplyMuts(file[last'.store].data, w.muts, Len(w.muts))
            /\ last'.result = Res("return", w.val)
            /\ \A s \in Stores \ {last'.store} : file'[s] = file[s]
    ]_vars

C11_Witness ==
  /\ last.op = "transaction" /\ last.outcome = "ok"
  /\ ~last.workThrew /\ last.dirty
  /\ last.result \in {Res("return", v) : v \in Vals}
  /\ file[last.store].data # {}

CreatedBeforeReferent(s) ==
  {StmtsOf(s)[k].table : k \in {j \in 1..Len(StmtsOf(s)) :
      \E r \in StmtsOf(s)[j].refs \ {StmtsOf(s)[j].table} :
        ~\E i \in 1..(j - 1) : StmtsOf(s)[i].table = r}}

\* C15: every table with a FOREIGN KEY ... REFERENCES T is created after T:
\* no bootstrap creates a table while a table it references is missing from
\* the store file, and no statement list puts a table before its referent.
C15_ReferencedTableCreatedFirst ==
  \A s \in Stores :
    /\ file[s].early = {}
    /\ file[s].tables # {} => CreatedBeforeReferent(s) = {}

\* the tables and the indexes the bootstrap of store s creates
AllTables(s) == {StmtsOf(s)[k].table : k \in 1..Len(StmtsOf(s))} \ {""}
AllIndexes(s) == UNION {StmtsOf(s)[k].indexes : k \in 1..Len(StmtsOf(s))}

\* the file f of store s has every table and index of the bootstrap
Bootstrapped(f, s) == AllTables(s) \subseteq f.tables /\ AllIndexes(s) \subseteq f.indexes

\* C16: no step removes a table or an index of a store file, whatever the
\* schema the bootstrap starts from and whether or not it completes; a
\* bootstrap of a store that has all its tables and indexes changes neither
\* set and none of its statements raises an error (the call fails only when
\* the engine reports an I/O fault).
C16_BootstrapIdempotentAndAdditive ==
  [][ /\ \A s \in Stores : /\ file[s].tables \subseteq file'[s].tables
                           /\ file[s].indexes \subseteq file'[s].indexes
      /\ (last'.op = "getStore" /\ last'.booted /\ Bootstrapped(file[last'.store], last'.store)) =>
           /\ file'[last'.store].tables = file[last'.store].tables
           /\ file'[last'.store].indexes = file[last'.store].indexes
           /\ last'.outcome = "ok" \/ last'.result = EngineError("SQLITE_IOERR")
    ]_vars

C16_Witness ==
  /\ last.op = "getStore" /\ last.store = "auth" /\ last.outcome = "ok" /\ last.booted
  /\ file["auth"].tables = AllTables("auth") /\ file["auth"].indexes = AllIndexes("auth")
  /\ \E h \in Handles :
       /\ h < last.handle /\ conns[h].store = "auth" /\ conns[h].bootOk

\* C17: a bootstrap that completes leaves the default rows in the store: in
\* core.db one filial 'Principal' (and the tema row), in auth.db one group
\* 'Admin', the table urls_autorizadas and, unless the hashing was reported
\* as failed, one account 'admin'; no step (a further bootstrap, a cached
\* getStore, closeAll, a transaction) changes the count of a default row
\* that exists, and no default row ever exists twice.
C17_DefaultRowsExistOnce ==
  [][ /\ (last'.op = "getStore" /\ last'.booted /\ last'.outcome = "ok") =>
           /\ last'.store = "core" =>
                /\ file'["core"].seed["filial.Principal"] = 1
                /\ file'["core"].seed["tema.1"] = 1
           /\ last'.store = "auth" =>
                /\ file'["auth"].seed["grupo_acesso.Admin"] = 1
                /\ "urls_autorizadas" \in file'["auth"].tables
                /\ ~last'.warned => file'["auth"].seed["usuario_sistema.admin"] = 1
      /\ \A s \in Stores, k \in SeedKeys :
           /\ file'[s].seed[k] <= 1
           /\ file[s].seed[k] > 0 => file'[s].seed[k] = file[s].seed[k]
    ]_vars

C17_Witness ==
  /\ last.op = "getStore" /\ last.store = "auth" /\ last.outcome = "ok"
  /\ last.booted /\ ~last.warned
  /\ file["auth"].seed["grupo_acesso.Admin"] = 1
  /\ file["auth"].seed["usuario_sistema.admin"] = 1
  /\ \E h \in Handles :
       /\ h < last.handle /\ conns[h].store = "auth" /\ conns[h].bootOk /\ ~conns[h].open

C19_RacingBootstrapsAgree ==
  /\ [](\A p \in Procs : race.error[p] = NoRes)
  /\ [](\A k \in SeedKeys : file[race.store].seed[k] <= 1)
  /\ []((\A p \in Procs : RaceDone(p)) =>
          LET f == file[race.store] IN
            /\ f.tables = AllTables(race.store) /\ f.indexes = AllIndexes(race.store)
            /\ race.store = "core" =>
                 (f.seed["filial.Principal"] = 1 /\ f.seed["tema.1"] = 1)
            /\ race.store = "auth" =>
                 /\ f.seed["grupo_acesso.Admin"] = 1
                 /\ (\E p \in Procs : race.hash[p] = "ok") =>
                      f.seed["usuario_sistema.admin"] = 1)
  /\ <>(\A p \in Procs : race.pc[p] = RaceSteps)

\* both processes selected before either inserted, and both inserted
C19_Witness ==
  /\ race.store = "auth" /\ \A p \in Procs : race.pc[p] = RaceSteps
  /\ \A p \in Procs : race.hash[p] = "ok" /\ ~race.seen[p] /\ ~race.warned[p]
  /\ file["auth"].seed["usuario_sistema.admin"] = 1

\* C20: the pragmas a connection has received are always the first ones of
\* the five, each once and in the order of initDatabase, and they are never
\* applied again later; a connection on which a bootstrap ran, or that is
\* cached or was handed out, has received all five, and they were all
\* applied when its bootstrap started.
C20_DirectivesBeforeBootstrap ==
  /\ [](\A h \in Handles :
          /\ Len(conns[h].pragmas) <= Len(Directives)
          /\ conns[h].pragmas = SubSeq(Directives, 1, Len(conns[h].pragmas))
          /\ (conns[h].bootRuns > 0 \/ conns[h].returned \/ slot[conns[h].store] = h) =>
               conns[h].pragmas = Directives)
  /\ [][ /\ \A h \in Handles : conns'[h].pragmas = conns[h].pragmas
         /\ (last'.op = "getStore" /\ last'.booted) =>
              /\ Len(conns') = Len(conns) + 1
              /\ conns'[Len(conns')].pragmas = Directives
              /\ conns'[Len(conns')].bootRuns = 1
       ]_vars

C20_Witness ==
  /\ \E h \in Handles : conns[h].bootRuns = 1 /\ conns[h].pragmas = Directives
  /\ \E g \in Handles :
       /\ conns[g].bootRuns = 0 /\ conns[g].open
       /\ Len(conns[g].pragmas) = Len(Directives) - 1

\* C21: a bootstrap never changes a default row that exists when it starts:
\* the row of each default key that is in the store before a getStore call
\* has the same columns after it, also columns a caller changed after the
\* seeding (the password hash of 'admin'), and there is still one such row.
C21_DefaultRowsNeverOverwritten ==
  [][ last'.op \in {"getStore", "closeAll"} =>
        \A s \in Stores, k \in SeedKeys :
          file[s].row[k] # "absent" =>
            /\ file'[s].row[k] = file[s].row[k]
            /\ file'[s].seed[k] = file[s].seed[k]
    ]_vars

C21_Witness ==
  /\ last.op = "getStore" /\ last.store = "auth" /\ last.booted /\ last.outcome = "ok"
  /\ file["auth"].row["usuario_sistema.admin"] = "changed"
  /\ file["auth"].row["grupo_acesso.Admin"] = "changed"
  /\ file["auth"].seed["usuario_sistema.admin"] = 1

\* C22: a transaction whose work throws changes nothing in the registry: every
\* slot and every connection is as before, so the handle of the store stays
\* cached, open and bootstrapped, and the files of the other stores are as
\* before; the getStore that follows returns that same handle without opening
\* anything, and a transaction on that handle whose work does not throw
\* commits.
C22_FailedTransactionLeavesStoreUsable ==
  /\ [][ last'.op = "transaction" /\ last'.outcome = "workError" =>
           /\ slot' = slot /\ conns' = conns
           /\ \A t \in Stores \ {last'.store} : file'[t] = file[t]
           /\ conns'[last'.handle].open
       ]_vars
  /\ [][ /\ last.op = "transaction" /\ last.outcome = "workError"
         /\ slot[last.store] = last.handle
         /\ last'.op = "getStore" /\ last'.store = last.store
         => /\ last'.outcome = "ok" /\ last'.handle = last.handle
            /\ ~last'.openTried /\ ~last'.booted
            /\ slot' = slot /\ conns' = conns /\ file' = file
       ]_vars
  /\ [][ /\ \/ last.op = "transaction" /\ last.outcome = "workError"
            \/ last.op = "getStore" /\ last.outcome = "ok"
         /\ slot[last.store] = last.handle
         /\ last'.op = "transaction" /\ last'.handle = last.handle
         /\ ~last'.workThrew
         => /\ last'.outcome = "ok" /\ last'.result.type = "return"
            /\ last'.dirty => file'[last'.store].data # file[last'.store].data
       ]_vars

C22_Witness ==
  /\ last.op = "transaction" /\ last.outcome = "workError" /\ last.dirty
  /\ last.store = "core" /\ slot["core"] = last.handle
  /\ conns[last.handle].open /\ conns[last.handle].bootOk
  /\ slot["auth"] # Null /\ conns[slot["auth"]].open

\* C23: for each store, the directory that holds the store's file exists when
\* the engine is asked to open the file, and a directory is created only in
\* the first access to a store.
C23_DirectoryExistsBeforeOpen ==
  /\ [][ last'.op = "open" => disk.layout[last'.store] \in disk.dirs ]_vars
  /\ [][ disk'.dirs # disk.dirs => last'.op = "open" ]_vars

\* C24: a getStore call for one store, whatever its outcome, leaves the other
\* two stores alone: their slots and files are as before, their connections
\* are as before (none opened, closed or bootstrapped), and a connection the
\* call opens belongs to the store that was asked for.
C24_StoresIndependent ==
  [][ last'.op = "getStore" =>
        /\ \A t \in Stores \ {last'.store} :
              slot'[t] = slot[t] /\ file'[t] = file[t]
        /\ Len(conns') >= Len(conns)
        /\ \A h \in 1..Len(conns) :
              conns[h].store # last'.store => conns'[h] = conns[h]
        /\ \A h \in (Len(conns) + 1)..Len(conns') :
              conns'[h].store = last'.store
    ]_vars

C24_Witness ==
  /\ last.op = "getStore" /\ last.store = "auth" /\ last.outcome = "schemaError"
  /\ slot["core"] # Null /\ conns[slot["core"]].open /\ conns[slot["core"]].bootOk
  /\ slot["core"] # slot["auth"]
  /\ slot["audit"] = Null

\* C25: in every reachable state a slot that is not empty holds a handle that
\* is open and on which close() has never been called.
C25_CachedHandleIsOpen ==
  \A s \in Stores :
    slot[s] # Null => (conns[slot[s]].open /\ ~conns[slot[s]].closeCalled)

\* C26: whenever a bootstrap of auth.db inserts the 'admin' account, the row of
\* grupo_acesso the account references is the group named 'Admin', whatever
\* grupo_acesso held before the bootstrap.
C26_AdminAccountReferencesAdminGroup ==
  [][ ( /\ last'.op = "getStore" /\ last'.store = "auth"
        /\ file["auth"].seed["usuario_sistema.admin"] = 0
        /\ file'["auth"].seed["usuario_sistema.admin"] = 1 ) =>
      /\ file'["auth"].adminRef \in 1..Len(file'["auth"].groups)
      /\ file'["auth"].groups[file'["auth"].adminRef] = "Admin"
    ]_vars
====
